---- MODULE Spec2Model ----
(***************************************************************************)
(* ClusterSpaceEvaluator (smol/utils/cluster_utils/evaluator.pyx).         *)
(*                                                                         *)
(* The evaluator holds an orbit registry (self.data), the stored           *)
(* interaction tensors (self.cluster_interactions) and the stored offset.  *)
(* Its four routines allocate an output vector, run one prange loop over   *)
(* the orbits and return the vector.  A call is modelled as: the call      *)
(* action (allocation, slot 0), one step per orbit of the prange loop in   *)
(* any order, and the return.                                              *)
(*                                                                         *)
(* C doubles are modelled as exact rationals [num, den] with den > 0 and   *)
(* gcd(num, den) = 1; den = 0 encodes the IEEE specials (num = 0: NaN,     *)
(* num = 1: +inf, num = -1: -inf).  Rounding is not modelled.              *)
(***************************************************************************)
EXTENDS Integers, Sequences, FiniteSets, TLC

VARIABLES self, pc, call, pending, out, workers, others

vars == <<self, pc, call, pending, out, workers, others>>

(***************************************************************************)
(* Bounds                                                                  *)
(***************************************************************************)
\* number of lattice sites of the simulated supercell
NumSites == 4

Sites == 0 .. (NumSites - 1)

(***************************************************************************)
(* double arithmetic                                                       *)
(***************************************************************************)
Abs(x) == IF x < 0 THEN -x ELSE x

Sign(x) == IF x < 0 THEN -1 ELSE IF x > 0 THEN 1 ELSE 0

RECURSIVE GCD(_, _)
GCD(a, b) == IF b = 0 THEN a ELSE GCD(b, a % b)

\* the double with value n/d (d may be negative; d = 0 gives a special)
Dbl(n, d) ==
    IF d = 0 THEN [num |-> Sign(n), den |-> 0]
    ELSE LET g == GCD(Abs(n), Abs(d))
         IN  [num |-> Sign(d) * (n \div g), den |-> Abs(d) \div g]

D(n) == [num |-> n, den |-> 1]

IsNaN(x) == x.den = 0 /\ x.num = 0

IsFinite(x) == x.den > 0

DNeg(x) == [num |-> -x.num, den |-> x.den]

DAdd(x, y) ==
    IF IsFinite(x) /\ IsFinite(y)
    THEN Dbl(x.num * y.den + y.num * x.den, x.den * y.den)
    ELSE IF IsNaN(x) \/ IsNaN(y) THEN Dbl(0, 0)
    ELSE IF IsFinite(x) THEN y
    ELSE IF IsFinite(y) THEN x
    ELSE IF x.num = y.num THEN x ELSE Dbl(0, 0)

DSub(x, y) == DAdd(x, DNeg(y))

DMul(x, y) ==
    IF IsFinite(x) /\ IsFinite(y)
    THEN Dbl(x.num * y.num, x.den * y.den)
    ELSE IF IsNaN(x) \/ IsNaN(y) THEN Dbl(0, 0)
    ELSE Dbl(Sign(x.num) * Sign(y.num), 0)

\* IEEE division (the C division of a build with cdivision=True)
DDiv(x, y) ==
    IF IsFinite(x) /\ IsFinite(y)
    THEN Dbl(x.num * y.den, x.den * y.num)
    ELSE IF IsNaN(x) \/ IsNaN(y) THEN Dbl(0, 0)
    ELSE IF IsFinite(y) THEN (IF y.num < 0 THEN DNeg(x) ELSE x)
    ELSE IF IsFinite(x) THEN D(0)
    ELSE Dbl(0, 0)

IsZero(x) == x.den > 0 /\ x.num = 0

(***************************************************************************)
(* arrays (0-based, flat, as the C structs hold them)                      *)
(***************************************************************************)
At(a, i) == a[i + 1]

\* IntArray2D / FloatArray2D: flat data with size_r rows of size_c columns
Array2D(rows, ncols) ==
    [data   |-> [x \in 1 .. (Len(rows) * ncols) |->
                    rows[((x - 1) \div ncols) + 1][((x - 1) % ncols) + 1]],
     size_r |-> Len(rows),
     size_c |-> ncols]

\* np.zeros(n)
zeros(n) == [s \in 0 .. (n - 1) |-> D(0)]

(***************************************************************************)
(* The orbit registry handed to the constructor (orbit_data) and the       *)
(* cluster index tables of the supercell.  The supercell is a ring of      *)
(* NumSites binary sites; orbit 0 holds the point clusters of the even     *)
(* sublattice, orbit 1 the nearest-neighbour pairs of the ring.            *)
(***************************************************************************)
\* occupation codes of a site
Codes == {0, 1}

Occupancies == [Sites -> Codes]

\* OrbitC records: id, bit_id, tensor_indices (mixed-radix multipliers) and
\* correlation_tensors (K rows of N columns, flat)
orbit_data ==
    << [id |-> 1, bit_id |-> 1,
        tensor_indices |-> <<1>>,
        correlation_tensors |-> Array2D(<< <<D(-1), D(1)>>, <<D(2), D(1)>> >>, 2)],
       [id |-> 2, bit_id |-> 3,
        tensor_indices |-> <<1, 2>>,
        correlation_tensors |-> Array2D(<< <<D(3), D(-1), D(2), D(0)>> >>, 4)] >>

\* rows of the full cluster index table of each orbit
FullRows ==
    << [j \in 1 .. ((NumSites + 1) \div 2) |-> << 2 * (j - 1) >>],
       [j \in 1 .. NumSites |-> << j - 1, j % NumSites >>] >>

\* the rows of orbit n (1-based position in the registry) touching a site of S
RestrictedRows(n, S) ==
    LET touches(row) == \E i \in 1 .. Len(row) : row[i] \in S
    IN  SelectSeq(FullRows[n], touches)

\* IntArray2DContainer of the rows given per orbit
Container(rows) ==
    [n \in 1 .. Len(rows) |-> Array2D(rows[n], Len(orbit_data[n].tensor_indices))]

FullTable == Container(FullRows)

RestrictedTable(S) == Container([n \in 1 .. Len(FullRows) |-> RestrictedRows(n, S)])

\* cluster_ratio of a restricted table: rows passed / rows of the full table
RatioOf(S) ==
    [n \in 1 .. Len(FullRows) |-> Dbl(Len(RestrictedRows(n, S)), Len(FullRows[n]))]

Ones == [n \in 1 .. Len(FullRows) |-> D(1)]

Halves == [n \in 1 .. Len(FullRows) |-> Dbl(1, 2)]

\* cluster_indices arguments: the full tables and the tables of one site
Tables == {FullTable} \cup {RestrictedTable({s}) : s \in Sites}

\* the sites at which two occupancies differ
Diff(a, b) == {s \in Sites : a[s] # b[s]}

\* (cluster_indices, cluster_ratio) arguments of the delta routines
DeltaArgs(occu_f, occu_i) ==
    {<<FullTable, Ones>>, <<FullTable, Halves>>,
     <<RestrictedTable(Diff(occu_f, occu_i)), RatioOf(Diff(occu_f, occu_i))>>}

\* number of copies of the cell in the largest replicated supercell
MaxCopies == 2

\* the occupancy of the cell repeated m times
Repeat(occu, m) == [s \in 0 .. (m * NumSites - 1) |-> occu[s % NumSites]]

\* the full table of orbit n replicated m times: copy c of a row has every
\* site index shifted by c * NumSites
ReplicatedRows(n, m) ==
    LET J == Len(FullRows[n])
    IN  [x \in 1 .. (m * J) |->
            [i \in 1 .. Len(FullRows[n][((x - 1) % J) + 1]) |->
                FullRows[n][((x - 1) % J) + 1][i] + ((x - 1) \div J) * NumSites]]

ReplicatedTable(m) == Container([n \in 1 .. Len(FullRows) |-> ReplicatedRows(n, m)])

(***************************************************************************)
(* Interaction tensors supplied by the model layer: per orbit the          *)
(* coefficient-weighted sum of the rows of its correlation tensors.        *)
(***************************************************************************)
\* fitted coefficients, one per correlation function (slot 0: the offset)
ECIs == { <<3, 2, -1, 3, 0>> }

Offsets == {D(0), D(3)}

RECURSIVE WeightedColumn(_, _, _, _)
WeightedColumn(orbit, w, c, k) ==
    IF k = orbit.correlation_tensors.size_r THEN D(0)
    ELSE DAdd(DMul(D(w[k + 1]),
                   At(orbit.correlation_tensors.data,
                      k * orbit.correlation_tensors.size_c + c)),
              WeightedColumn(orbit, w, c, k + 1))

\* flat interaction tensor of one orbit from its K weights
InteractionTensor(orbit, w) ==
    [x \in 1 .. orbit.correlation_tensors.size_c |->
        WeightedColumn(orbit, w, x - 1, 0)]

\* tensors derived from a coefficient vector indexed like the correlation vector
TensorsOf(eci) ==
    [n \in 1 .. Len(orbit_data) |->
        InteractionTensor(orbit_data[n],
            [k \in 1 .. orbit_data[n].correlation_tensors.size_r |->
                eci[orbit_data[n].bit_id + k]])]

\* tuple(data[2].sum(axis=0) for data in orbit_data)
DefaultTensors ==
    [n \in 1 .. Len(orbit_data) |->
        InteractionTensor(orbit_data[n],
            [k \in 1 .. orbit_data[n].correlation_tensors.size_r |-> 1])]

\* (tensors, offset) handed to set_cluster_interactions: the tensors of a fit
\* with its constant term, and a tuple of the wrong length
SetterArgs ==
    {<<TensorsOf(eci), D(eci[1])>> : eci \in ECIs}
    \cup {<<SubSeq(DefaultTensors, 1, 1), D(0)>>}

(***************************************************************************)
(* The loops of the four routines.  Each operator is one loop of the code, *)
(* carrying the loop variable and the accumulator.                         *)
(***************************************************************************)
\* flat_index taking the occupancy codes as counted from 1
RECURSIVE flat_index_codes_from_one(_, _, _, _, _, _)
flat_index_codes_from_one(orbit, indices, occu, j, i, index) ==
    IF i = indices.size_c THEN index
    ELSE flat_index_codes_from_one(orbit, indices, occu, j, i + 1,
            index + At(orbit.tensor_indices, i)
                    * (occu[At(indices.data, j * indices.size_c + i)] + 1))

\* flat_index weighting every site with the stride of the first one
RECURSIVE flat_index_first_stride(_, _, _, _, _, _)
flat_index_first_stride(orbit, indices, occu, j, i, index) ==
    IF i = indices.size_c THEN index
    ELSE flat_index_first_stride(orbit, indices, occu, j, i + 1,
            index + At(orbit.tensor_indices, 0)
                    * occu[At(indices.data, j * indices.size_c + i)])

\* flat_index adding the occupancy codes without the strides of tensor_indices
RECURSIVE flat_index_unweighted(_, _, _, _, _, _)
flat_index_unweighted(orbit, indices, occu, j, i, index) ==
    IF i = indices.size_c THEN index
    ELSE flat_index_unweighted(orbit, indices, occu, j, i + 1,
            index + occu[At(indices.data, j * indices.size_c + i)])

\* for i in range(I): index = index + tensor_indices[i] * occu[indices[j * I + i]]
RECURSIVE flat_index(_, _, _, _, _, _)
flat_index(orbit, indices, occu, j, i, index) ==
    IF i = indices.size_c THEN index
    ELSE flat_index(orbit, indices, occu, j, i + 1,
            index + At(orbit.tensor_indices, i)
                    * occu[At(indices.data, j * indices.size_c + i)])

\* corr_sum assigning the lookup to p instead of adding it
RECURSIVE corr_sum_assign(_, _, _, _, _, _)
corr_sum_assign(orbit, indices, occu, k, j, p) ==
    IF j = indices.size_r THEN p
    ELSE corr_sum_assign(orbit, indices, occu, k, j + 1,
            At(orbit.correlation_tensors.data,
               k * orbit.correlation_tensors.size_c
               + flat_index(orbit, indices, occu, j, 0, 0)))

\* for j in range(J): p = p + correlation_tensors[k * N + index]
RECURSIVE corr_sum(_, _, _, _, _, _)
corr_sum(orbit, indices, occu, k, j, p) ==
    IF j = indices.size_r THEN p
    ELSE corr_sum(orbit, indices, occu, k, j + 1,
            DAdd(p, At(orbit.correlation_tensors.data,
                       k * orbit.correlation_tensors.size_c
                       + flat_index(orbit, indices, occu, j, 0, 0))))

\* corr_orbit taking bit_id as an offset into the orbit slots (slot 0 the first)
RECURSIVE corr_orbit_from_zero(_, _, _, _, _, _)
corr_orbit_from_zero(o_view, orbit, indices, occu, k, bit_id) ==
    IF k = orbit.correlation_tensors.size_r THEN o_view
    ELSE corr_orbit_from_zero(
            [o_view EXCEPT ![bit_id - 1] =
                DDiv(corr_sum(orbit, indices, occu, k, 0, D(0)), D(indices.size_r))],
            orbit, indices, occu, k + 1, bit_id + 1)

\* corr_orbit without the increment of bit_id
RECURSIVE corr_orbit_same_slot(_, _, _, _, _, _)
corr_orbit_same_slot(o_view, orbit, indices, occu, k, bit_id) ==
    IF k = orbit.correlation_tensors.size_r THEN o_view
    ELSE corr_orbit_same_slot(
            [o_view EXCEPT ![bit_id] =
                DDiv(corr_sum(orbit, indices, occu, k, 0, D(0)), D(indices.size_r))],
            orbit, indices, occu, k + 1, bit_id)

\* corr_orbit writing the sum over the rows without the division by J
RECURSIVE corr_orbit_no_average(_, _, _, _, _, _)
corr_orbit_no_average(o_view, orbit, indices, occu, k, bit_id) ==
    IF k = orbit.correlation_tensors.size_r THEN o_view
    ELSE corr_orbit_no_average(
            [o_view EXCEPT ![bit_id] = corr_sum(orbit, indices, occu, k, 0, D(0))],
            orbit, indices, occu, k + 1, bit_id + 1)

\* for k in range(K): ...; o_view[bit_id] = p / J; bit_id = bit_id + 1
RECURSIVE corr_orbit(_, _, _, _, _, _)
corr_orbit(o_view, orbit, indices, occu, k, bit_id) ==
    IF k = orbit.correlation_tensors.size_r THEN o_view
    ELSE corr_orbit(
            [o_view EXCEPT ![bit_id] =
                DDiv(corr_sum(orbit, indices, occu, k, 0, D(0)), D(indices.size_r))],
            orbit, indices, occu, k + 1, bit_id + 1)

\* for j in range(J): p = p + interaction_tensor[index]
RECURSIVE inter_sum(_, _, _, _, _, _)
inter_sum(orbit, interaction_tensor, indices, occu, j, p) ==
    IF j = indices.size_r THEN p
    ELSE inter_sum(orbit, interaction_tensor, indices, occu, j + 1,
            DAdd(p, At(interaction_tensor, flat_index(orbit, indices, occu, j, 0, 0))))

\* inter_orbit averaging over the columns (I) of the table, not its rows (J)
inter_orbit_by_columns(o_view, orbit, interaction_tensor, indices, occu) ==
    [o_view EXCEPT ![orbit.id] =
        DDiv(inter_sum(orbit, interaction_tensor, indices, occu, 0, D(0)),
             D(indices.size_c))]

\* inter_orbit writing to the slot of the orbit's first correlation function
inter_orbit_at_bit_id(o_view, orbit, interaction_tensor, indices, occu) ==
    [o_view EXCEPT ![orbit.bit_id] =
        DDiv(inter_sum(orbit, interaction_tensor, indices, occu, 0, D(0)),
             D(indices.size_r))]

\* inter_orbit taking the orbit ids as counted from 0
inter_orbit_zero_based(o_view, orbit, interaction_tensor, indices, occu) ==
    [o_view EXCEPT ![orbit.id - 1] =
        DDiv(inter_sum(orbit, interaction_tensor, indices, occu, 0, D(0)),
             D(indices.size_r))]

\* o_view[orbit.id] = p / J
inter_orbit(o_view, orbit, interaction_tensor, indices, occu) ==
    [o_view EXCEPT ![orbit.id] =
        DDiv(inter_sum(orbit, interaction_tensor, indices, occu, 0, D(0)),
             D(indices.size_r))]

\* delta_corr_sum adding the value of the final occupancy only
RECURSIVE delta_corr_sum_final_only(_, _, _, _, _, _, _)
delta_corr_sum_final_only(orbit, indices, occu_f, occu_i, k, j, p) ==
    IF j = indices.size_r THEN p
    ELSE delta_corr_sum_final_only(orbit, indices, occu_f, occu_i, k, j + 1,
            DAdd(p, At(orbit.correlation_tensors.data,
                       k * orbit.correlation_tensors.size_c
                       + flat_index(orbit, indices, occu_f, j, 0, 0))))

\* delta_corr_sum adding the two lookups instead of subtracting them
RECURSIVE delta_corr_sum_added(_, _, _, _, _, _, _)
delta_corr_sum_added(orbit, indices, occu_f, occu_i, k, j, p) ==
    IF j = indices.size_r THEN p
    ELSE delta_corr_sum_added(orbit, indices, occu_f, occu_i, k, j + 1,
            DAdd(p, DAdd(At(orbit.correlation_tensors.data,
                            k * orbit.correlation_tensors.size_c
                            + flat_index(orbit, indices, occu_f, j, 0, 0)),
                         At(orbit.correlation_tensors.data,
                            k * orbit.correlation_tensors.size_c
                            + flat_index(orbit, indices, occu_i, j, 0, 0)))))

\* delta_corr_sum with the two lookups exchanged (initial minus final)
RECURSIVE delta_corr_sum_reversed(_, _, _, _, _, _, _)
delta_corr_sum_reversed(orbit, indices, occu_f, occu_i, k, j, p) ==
    IF j = indices.size_r THEN p
    ELSE delta_corr_sum_reversed(orbit, indices, occu_f, occu_i, k, j + 1,
            DAdd(p, DSub(At(orbit.correlation_tensors.data,
                            k * orbit.correlation_tensors.size_c
                            + flat_index(orbit, indices, occu_i, j, 0, 0)),
                         At(orbit.correlation_tensors.data,
                            k * orbit.correlation_tensors.size_c
                            + flat_index(orbit, indices, occu_f, j, 0, 0)))))

\* for j in range(J): p = p + (correlation_tensors[k * N + ind_f]
\*                             - correlation_tensors[k * N + ind_i])
RECURSIVE delta_corr_sum(_, _, _, _, _, _, _)
delta_corr_sum(orbit, indices, occu_f, occu_i, k, j, p) ==
    IF j = indices.size_r THEN p
    ELSE delta_corr_sum(orbit, indices, occu_f, occu_i, k, j + 1,
            DAdd(p, DSub(At(orbit.correlation_tensors.data,
                            k * orbit.correlation_tensors.size_c
                            + flat_index(orbit, indices, occu_f, j, 0, 0)),
                         At(orbit.correlation_tensors.data,
                            k * orbit.correlation_tensors.size_c
                            + flat_index(orbit, indices, occu_i, j, 0, 0)))))

\* for k in range(K): ...; o_view[bit_id] = p / cluster_ratio[n] / J
RECURSIVE delta_corr_orbit(_, _, _, _, _, _, _, _)
delta_corr_orbit(o_view, orbit, indices, occu_f, occu_i, ratio, k, bit_id) ==
    IF k = orbit.correlation_tensors.size_r THEN o_view
    ELSE delta_corr_orbit(
            [o_view EXCEPT ![bit_id] =
                DDiv(DDiv(delta_corr_sum(orbit, indices, occu_f, occu_i, k, 0, D(0)),
                          ratio),
                     D(indices.size_r))],
            orbit, indices, occu_f, occu_i, ratio, k + 1, bit_id + 1)

\* delta_inter_sum subtracting the value of the initial occupancy twice
RECURSIVE delta_inter_sum_initial_twice(_, _, _, _, _, _, _)
delta_inter_sum_initial_twice(orbit, interaction_tensor, indices, occu_f, occu_i, j, p) ==
    IF j = indices.size_r THEN p
    ELSE delta_inter_sum_initial_twice(orbit, interaction_tensor, indices, occu_f,
            occu_i, j + 1,
            DSub(DAdd(p, DSub(At(interaction_tensor,
                                 flat_index(orbit, indices, occu_f, j, 0, 0)),
                              At(interaction_tensor,
                                 flat_index(orbit, indices, occu_i, j, 0, 0)))),
                 At(interaction_tensor, flat_index(orbit, indices, occu_i, j, 0, 0))))

\* delta_inter_sum adding the value of the final occupancy only
RECURSIVE delta_inter_sum_final_only(_, _, _, _, _, _, _)
delta_inter_sum_final_only(orbit, interaction_tensor, indices, occu_f, occu_i, j, p) ==
    IF j = indices.size_r THEN p
    ELSE delta_inter_sum_final_only(orbit, interaction_tensor, indices, occu_f, occu_i,
            j + 1,
            DAdd(p, At(interaction_tensor, flat_index(orbit, indices, occu_f, j, 0, 0))))

\* for j in range(J): p = p + (interaction_tensor[ind_f] - interaction_tensor[ind_i])
RECURSIVE delta_inter_sum(_, _, _, _, _, _, _)
delta_inter_sum(orbit, interaction_tensor, indices, occu_f, occu_i, j, p) ==
    IF j = indices.size_r THEN p
    ELSE delta_inter_sum(orbit, interaction_tensor, indices, occu_f, occu_i, j + 1,
            DAdd(p, DSub(At(interaction_tensor,
                            flat_index(orbit, indices, occu_f, j, 0, 0)),
                         At(interaction_tensor,
                            flat_index(orbit, indices, occu_i, j, 0, 0)))))

\* delta_inter_orbit without the division by cluster_ratio[n]
delta_inter_orbit_no_ratio(o_view, orbit, interaction_tensor, indices, occu_f, occu_i, ratio) ==
    [o_view EXCEPT ![orbit.id] =
        DDiv(delta_inter_sum(orbit, interaction_tensor, indices,
                             occu_f, occu_i, 0, D(0)),
             D(indices.size_r))]

\* o_view[orbit.id] = p / cluster_ratio[n] / J
delta_inter_orbit(o_view, orbit, interaction_tensor, indices, occu_f, occu_i, ratio) ==
    [o_view EXCEPT ![orbit.id] =
        DDiv(DDiv(delta_inter_sum(orbit, interaction_tensor, indices,
                                  occu_f, occu_i, 0, D(0)),
                  ratio),
             D(indices.size_r))]

(***************************************************************************)
(* State                                                                   *)
(*   self       the evaluator: data (registry), size, num_orbits,          *)
(*              num_corr, offset, cluster_interactions                     *)
(*   pc         "idle", "prange" (inside the loop over orbits),            *)
(*              "returned", or the name of the exception raised            *)
(*   call       the routine running and its arguments                      *)
(*   pending    the orbits the prange loop has not visited yet             *)
(*   out        the output vector of the call                              *)
(*   workers    the private variables (n, k, bit_id) of each worker thread *)
(*              of the prange loop, where the loop is followed write by    *)
(*              write; empty where an iteration is one step                *)
(*   others     the frames (pc, call, pending, out) of the calls that      *)
(*              other threads have in progress on the same evaluator;      *)
(*              empty where one thread calls                               *)
(***************************************************************************)
ZeroOccu == [s \in Sites |-> 0]

NoCall ==
    [op |-> "none", occu_f |-> ZeroOccu, occu_i |-> ZeroOccu, offset |-> D(0),
     cluster_ratio |-> Ones, cluster_indices |-> FullTable]

\* num_corr_functions handed to the constructor: the number of correlation
\* functions of the registry including the empty cluster, or one more
NumCorrFunctions == {4, 5}

\* __cinit__ without cluster_interaction_tensors and with the default offset:
\* the fields after construction
Init ==
    /\ \E num_corr_functions \in NumCorrFunctions :
          self = [data |-> orbit_data,
                  size |-> Len(orbit_data),
                  num_orbits |-> Len(orbit_data) + 1,
                  num_corr |-> num_corr_functions,
                  offset |-> D(0),
                  cluster_interactions |-> DefaultTensors]
    /\ pc = "idle"
    /\ call = NoCall
    /\ pending = {}
    /\ out = zeros(0)
    /\ workers = << >>
    /\ others = << >>

\* set_cluster_interactions storing the offset before it checks the count
set_cluster_interactions_offset_first(cluster_interaction_tensors, offset) ==
    /\ pc = "idle"
    /\ call' = [NoCall EXCEPT !.op = "set_cluster_interactions", !.offset = offset]
    /\ IF Len(cluster_interaction_tensors) # self.size
       THEN /\ pc' = "ValueError"
            /\ self' = [self EXCEPT !.offset = offset]
       ELSE /\ pc' = "returned"
            /\ self' = [self EXCEPT !.cluster_interactions = cluster_interaction_tensors,
                                    !.offset = offset]
    /\ UNCHANGED <<pending, out, workers, others>>

\* set_cluster_interactions leaving the tensor of the first orbit as it was
set_cluster_interactions_keeping_first(cluster_interaction_tensors, offset) ==
    /\ pc = "idle"
    /\ call' = [NoCall EXCEPT !.op = "set_cluster_interactions", !.offset = offset]
    /\ IF Len(cluster_interaction_tensors) # self.size
       THEN /\ pc' = "ValueError"
            /\ self' = self
       ELSE /\ pc' = "returned"
            /\ self' = [self EXCEPT
                          !.cluster_interactions =
                              [cluster_interaction_tensors EXCEPT
                                 ![1] = self.cluster_interactions[1]],
                          !.offset = offset]
    /\ UNCHANGED <<pending, out, workers, others>>

\* set_cluster_interactions storing its arguments before it checks the count
set_cluster_interactions_unchecked(cluster_interaction_tensors, offset) ==
    /\ pc = "idle"
    /\ call' = [NoCall EXCEPT !.op = "set_cluster_interactions", !.offset = offset]
    /\ self' = [self EXCEPT !.cluster_interactions = cluster_interaction_tensors,
                            !.offset = offset]
    /\ pc' = IF Len(cluster_interaction_tensors) # self.size
             THEN "ValueError" ELSE "returned"
    /\ UNCHANGED <<pending, out, workers, others>>

set_cluster_interactions(cluster_interaction_tensors, offset) ==
    /\ pc = "idle"
    /\ call' = [NoCall EXCEPT !.op = "set_cluster_interactions", !.offset = offset]
    /\ IF Len(cluster_interaction_tensors) # self.size
       THEN /\ pc' = "ValueError"
            /\ self' = self
       ELSE /\ pc' = "returned"
            /\ self' = [self EXCEPT !.cluster_interactions = cluster_interaction_tensors,
                                    !.offset = offset]
    /\ UNCHANGED <<pending, out, workers, others>>

\* out = np.zeros(self.num_corr); o_view[0] = 1
correlations_alloc(num_corr) == [zeros(num_corr) EXCEPT ![0] = D(1)]

\* interactions_alloc taking the offset stored in the evaluator
interactions_alloc_stored(num_orbits, offset) ==
    [zeros(num_orbits) EXCEPT ![0] = self.offset]

\* out = np.zeros(self.num_orbits); o_view[0] = offset
interactions_alloc(num_orbits, offset) == [zeros(num_orbits) EXCEPT ![0] = offset]

\* delta_correlations_alloc with the empty-cluster slot of the correlations
delta_correlations_alloc_one(num_corr) == [zeros(num_corr) EXCEPT ![0] = D(1)]

\* out = np.zeros(self.num_corr)
delta_correlations_alloc(num_corr) == zeros(num_corr)

\* out = np.zeros(self.num_orbits)
delta_interactions_alloc(num_orbits) == zeros(num_orbits)

\* Enter keeping the offset argument in the evaluator
Enter_storing_offset(op, occu_f, occu_i, offset, cluster_ratio, cluster_indices, o_view) ==
    /\ pc = "idle"
    /\ pc' = "prange"
    /\ call' = [op |-> op, occu_f |-> occu_f, occu_i |-> occu_i, offset |-> offset,
                cluster_ratio |-> cluster_ratio, cluster_indices |-> cluster_indices]
    /\ pending' = 0 .. (self.size - 1)
    /\ out' = o_view
    /\ self' = [self EXCEPT !.offset = offset]
    /\ UNCHANGED <<workers, others>>

Enter(op, occu_f, occu_i, offset, cluster_ratio, cluster_indices, o_view) ==
    /\ pc = "idle"
    /\ pc' = "prange"
    /\ call' = [op |-> op, occu_f |-> occu_f, occu_i |-> occu_i, offset |-> offset,
                cluster_ratio |-> cluster_ratio, cluster_indices |-> cluster_indices]
    /\ pending' = 0 .. (self.size - 1)
    /\ out' = o_view
    /\ UNCHANGED <<self, workers, others>>

correlations_from_occupancy(occu, cluster_indices) ==
    Enter("correlations_from_occupancy", occu, occu, D(0), Ones, cluster_indices,
          correlations_alloc(self.num_corr))

interactions_from_occupancy(occu, offset, cluster_indices) ==
    Enter("interactions_from_occupancy", occu, occu, offset, Ones, cluster_indices,
          interactions_alloc(self.num_orbits, offset))

delta_correlations_from_occupancies(occu_f, occu_i, cluster_ratio, cluster_indices) ==
    Enter("delta_correlations_from_occupancies", occu_f, occu_i, D(0),
          cluster_ratio, cluster_indices, delta_correlations_alloc(self.num_corr))

delta_interactions_from_occupancies(occu_f, occu_i, cluster_ratio, cluster_indices) ==
    Enter("delta_interactions_from_occupancies", occu_f, occu_i, D(0),
          cluster_ratio, cluster_indices, delta_interactions_alloc(self.num_orbits))

\* the body of the prange loop for orbit n, on the output vector o_view
prange_body(slf, c, o_view, n) ==
    LET orbit   == slf.data[n + 1]
        indices == c.cluster_indices[n + 1]
    IN  CASE c.op = "correlations_from_occupancy" ->
                corr_orbit(o_view, orbit, indices, c.occu_f, 0, orbit.bit_id)
          [] c.op = "interactions_from_occupancy" ->
                inter_orbit(o_view, orbit, slf.cluster_interactions[n + 1],
                            indices, c.occu_f)
          [] c.op = "delta_correlations_from_occupancies" ->
                delta_corr_orbit(o_view, orbit, indices, c.occu_f, c.occu_i,
                                 c.cluster_ratio[n + 1], 0, orbit.bit_id)
          [] c.op = "delta_interactions_from_occupancies" ->
                delta_inter_orbit(o_view, orbit, slf.cluster_interactions[n + 1],
                                  indices, c.occu_f, c.occu_i, c.cluster_ratio[n + 1])

\* the output vector as allocated by the routine, before the loop
call_alloc(slf, c) ==
    CASE c.op = "correlations_from_occupancy" -> correlations_alloc(slf.num_corr)
      [] c.op = "interactions_from_occupancy" ->
            interactions_alloc(slf.num_orbits, c.offset)
      [] c.op = "delta_correlations_from_occupancies" ->
            delta_correlations_alloc(slf.num_corr)
      [] c.op = "delta_interactions_from_occupancies" ->
            delta_interactions_alloc(slf.num_orbits)

\* the loop over the orbits from n on, in index order (one worker)
RECURSIVE prange_from(_, _, _, _)
prange_from(slf, c, o_view, n) ==
    IF n = slf.size THEN o_view
    ELSE prange_from(slf, c, prange_body(slf, c, o_view, n), n + 1)

\* the vector a call returns when no division raises
result_of(slf, c) == prange_from(slf, c, call_alloc(slf, c), 0)

\* orbit n divides by a zero J or a zero cluster_ratio[n]
divides_by_zero(slf, c, n) ==
    LET orbit   == slf.data[n + 1]
        indices == c.cluster_indices[n + 1]
        zero    == \/ indices.size_r = 0
                   \/ /\ c.op \in {"delta_correlations_from_occupancies",
                                   "delta_interactions_from_occupancies"}
                      /\ IsZero(c.cluster_ratio[n + 1])
    IN  IF c.op \in {"correlations_from_occupancy",
                     "delta_correlations_from_occupancies"}
        THEN zero /\ orbit.correlation_tensors.size_r > 0
        ELSE zero

\* one iteration of  for n in prange(self.size, nogil=True)
Orbit(n) ==
    /\ pc = "prange"
    /\ n \in pending
    /\ out' = prange_body(self, call, out, n)
    /\ pending' = pending \ {n}
    /\ pc' = IF pending' = {} THEN "returned" ELSE "prange"
    /\ UNCHANGED <<self, call, workers, others>>

\* an iteration that divides by zero in a build that checks the divisor
\* (cdivision=False); with cdivision=True the iteration is Orbit(n) and the
\* quotient is the IEEE one
OrbitZeroDivision(n) ==
    /\ pc = "prange"
    /\ n \in pending
    /\ divides_by_zero(self, call, n)
    /\ pc' = "ZeroDivisionError"
    /\ pending' = {}
    /\ out' = zeros(0)
    /\ UNCHANGED <<self, call, workers, others>>

\* return out (or the exception reaches the caller); the frame and the
\* threads' private variables are dropped
Return ==
    /\ pc \in {"returned", "ValueError", "ZeroDivisionError", "IndexError"}
    /\ pc' = "idle"
    /\ call' = NoCall
    /\ pending' = {}
    /\ out' = zeros(0)
    /\ workers' = [w \in DOMAIN workers |-> [n |-> -1, k |-> 0, bit_id |-> 0]]
    /\ UNCHANGED <<self, others>>

Next ==
    \/ \E a \in SetterArgs : set_cluster_interactions(a[1], a[2])
    \/ \E occu \in Occupancies, cluster_indices \in Tables :
          correlations_from_occupancy(occu, cluster_indices)
    \/ \E occu \in Occupancies, offset \in Offsets :
          interactions_from_occupancy(occu, offset, FullTable)
    \/ \E occu_f \in Occupancies, occu_i \in Occupancies :
          \E a \in DeltaArgs(occu_f, occu_i) :
             delta_correlations_from_occupancies(occu_f, occu_i, a[2], a[1])
    \/ \E occu_f \in Occupancies, occu_i \in Occupancies :
          \E a \in DeltaArgs(occu_f, occu_i) :
             delta_interactions_from_occupancies(occu_f, occu_i, a[2], a[1])
    \/ \E n \in 0 .. (Len(orbit_data) - 1) : Orbit(n)
    \/ \E n \in 0 .. (Len(orbit_data) - 1) : OrbitZeroDivision(n)
    \/ Return

Spec == Init /\ [][Next]_vars

(***************************************************************************)
(* The non-delta routines on supercells of 1 .. MaxCopies copies of the    *)
(* cell.                                                                   *)
(***************************************************************************)
NextSupercell ==
    \/ \E a \in SetterArgs : set_cluster_interactions(a[1], a[2])
    \/ \E occu \in Occupancies, m \in 1 .. MaxCopies :
          correlations_from_occupancy(Repeat(occu, m), ReplicatedTable(m))
    \/ \E occu \in Occupancies, m \in 1 .. MaxCopies, offset \in Offsets :
          interactions_from_occupancy(Repeat(occu, m), offset, ReplicatedTable(m))
    \/ \E n \in 0 .. (Len(orbit_data) - 1) : Orbit(n)
    \/ Return

SpecSupercell == Init /\ [][NextSupercell]_vars

(***************************************************************************)
(* An evaluator of one orbit of pair clusters over two species, with the   *)
(* 1 x 4 correlation table [a, b, c, d], on a cell of four sites.          *)
(***************************************************************************)
TableValues == {-1, 0, 2}

PairOrbit(a, b, c, d) ==
    [id |-> 1, bit_id |-> 1,
     tensor_indices |-> <<1, 2>>,
     correlation_tensors |-> Array2D(<< <<D(a), D(b), D(c), D(d)>> >>, 4)]

PairTable == << Array2D(<< <<0, 1>>, <<2, 3>> >>, 2) >>

PairOccupancies == [0 .. 3 -> Codes]

InitPair ==
    /\ \E a \in TableValues, b \in TableValues, c \in TableValues, d \in TableValues :
          self = [data |-> << PairOrbit(a, b, c, d) >>,
                  size |-> 1,
                  num_orbits |-> 2,
                  num_corr |-> 2,
                  offset |-> D(0),
                  cluster_interactions |->
                      << InteractionTensor(PairOrbit(a, b, c, d), <<1>>) >>]
    /\ pc = "idle"
    /\ call = NoCall
    /\ pending = {}
    /\ out = zeros(0)
    /\ workers = << >>
    /\ others = << >>

NextPair ==
    \/ \E occu \in PairOccupancies : correlations_from_occupancy(occu, PairTable)
    \/ Orbit(0)
    \/ Return

SpecPair == InitPair /\ [][NextPair]_vars

(***************************************************************************)
(* The prange loop followed write by write.  Each worker thread holds its  *)
(* own n, k and bit_id (variables assigned in the body of a prange are     *)
(* private to the thread; p and index live within one write).  A worker    *)
(* takes an orbit nobody has taken, writes its slots one at a time and     *)
(* takes the next; the call returns when every orbit is done.              *)
(***************************************************************************)
NumWorkers == 2

Workers == 1 .. NumWorkers

\* __cinit__ with every argument given
cinit(data, num_orbits, num_corr_functions, offset, cluster_interaction_tensors) ==
    [data |-> data,
     size |-> Len(data),
     num_orbits |-> num_orbits,
     num_corr |-> num_corr_functions,
     offset |-> offset,
     cluster_interactions |-> cluster_interaction_tensors]

InitPrange ==
    /\ \E num_corr_functions \in NumCorrFunctions, eci \in ECIs :
          self = cinit(orbit_data, Len(orbit_data) + 1, num_corr_functions,
                       D(eci[1]), TensorsOf(eci))
    /\ pc = "idle"
    /\ call = NoCall
    /\ pending = {}
    /\ out = zeros(0)
    /\ workers = [w \in Workers |-> [n |-> -1, k |-> 0, bit_id |-> 0]]
    /\ others = << >>

\* the private variables of a worker starting orbit n, with bit_id left as
\* the worker's previous iteration left it
worker_begin_stale(wk, orbit, n) == [n |-> n, k |-> 0, bit_id |-> wk.bit_id]

\* orbit = self.data[n]; bit_id = orbit.bit_id; (k = 0)
worker_begin(wk, orbit, n) == [n |-> n, k |-> 0, bit_id |-> orbit.bit_id]

\* the number of slots the iteration for the orbit writes
worker_writes(op, orbit) ==
    IF op \in {"correlations_from_occupancy", "delta_correlations_from_occupancies"}
    THEN orbit.correlation_tensors.size_r
    ELSE 1

\* the output vector after the next write of worker record wk
worker_write(slf, c, o_view, wk) ==
    LET orbit   == slf.data[wk.n + 1]
        indices == c.cluster_indices[wk.n + 1]
    IN  CASE c.op = "correlations_from_occupancy" ->
                [o_view EXCEPT ![wk.bit_id] =
                    DDiv(corr_sum(orbit, indices, c.occu_f, wk.k, 0, D(0)),
                         D(indices.size_r))]
          [] c.op = "delta_correlations_from_occupancies" ->
                [o_view EXCEPT ![wk.bit_id] =
                    DDiv(DDiv(delta_corr_sum(orbit, indices, c.occu_f, c.occu_i,
                                             wk.k, 0, D(0)),
                              c.cluster_ratio[wk.n + 1]),
                         D(indices.size_r))]
          [] OTHER -> prange_body(slf, c, o_view, wk.n)

TakeOrbit(w, n) ==
    /\ pc = "prange"
    /\ workers[w].n = -1
    /\ n \in pending
    /\ pending' = pending \ {n}
    /\ workers' = [workers EXCEPT ![w] = worker_begin(workers[w], self.data[n + 1], n)]
    /\ UNCHANGED <<self, pc, call, out, others>>

WriteSlot(w) ==
    /\ pc = "prange"
    /\ workers[w].n # -1
    /\ workers[w].k < worker_writes(call.op, self.data[workers[w].n + 1])
    /\ out' = worker_write(self, call, out, workers[w])
    /\ workers' = [workers EXCEPT ![w].k = @ + 1, ![w].bit_id = @ + 1]
    /\ UNCHANGED <<self, pc, call, pending, others>>

\* a write that divides by zero in a build that checks the divisor: the
\* loop is left and the exception reaches the caller
WriteZeroDivision(w) ==
    /\ pc = "prange"
    /\ workers[w].n # -1
    /\ workers[w].k < worker_writes(call.op, self.data[workers[w].n + 1])
    /\ divides_by_zero(self, call, workers[w].n)
    /\ pc' = "ZeroDivisionError"
    /\ pending' = {}
    /\ out' = zeros(0)
    /\ workers' = [v \in Workers |-> [workers[v] EXCEPT !.n = -1]]
    /\ UNCHANGED <<self, call, others>>

FinishOrbit(w) ==
    /\ pc = "prange"
    /\ workers[w].n # -1
    /\ workers[w].k = worker_writes(call.op, self.data[workers[w].n + 1])
    /\ workers' = [workers EXCEPT ![w].n = -1]
    /\ pc' = IF pending = {} /\ \A v \in Workers : workers'[v].n = -1
             THEN "returned" ELSE "prange"
    /\ UNCHANGED <<self, call, pending, out, others>>

\* the occupancy with the species of site s exchanged
Flip(occu, s) == [occu EXCEPT ![s] = 1 - @]

\* (cluster_indices, cluster_ratio) for a flip of site s
FlipArgs(s) == {<<FullTable, Ones>>, <<RestrictedTable({s}), RatioOf({s})>>}

NextPrange ==
    \/ \E occu \in Occupancies : correlations_from_occupancy(occu, FullTable)
    \/ \E occu \in Occupancies, offset \in Offsets :
          interactions_from_occupancy(occu, offset, FullTable)
    \/ \E occu_i \in Occupancies, s \in Sites : \E a \in FlipArgs(s) :
          delta_correlations_from_occupancies(Flip(occu_i, s), occu_i, a[2], a[1])
    \/ \E occu_i \in Occupancies, s \in Sites : \E a \in FlipArgs(s) :
          delta_interactions_from_occupancies(Flip(occu_i, s), occu_i, a[2], a[1])
    \/ \E w \in Workers, n \in 0 .. (Len(orbit_data) - 1) : TakeOrbit(w, n)
    \/ \E w \in Workers : WriteSlot(w)
    \/ \E w \in Workers : WriteZeroDivision(w)
    \/ \E w \in Workers : FinishOrbit(w)
    \/ Return

SpecPrange == InitPrange /\ [][NextPrange]_vars

(***************************************************************************)
(* Evaluators over the registries the cluster-subspace layer lays out: the *)
(* orbits are numbered from 1, and each orbit's K correlation functions    *)
(* take the next K slots of the correlation vector after slot 0.           *)
(***************************************************************************)
MaxRows == 2

RECURSIVE RowsBefore(_, _)
RowsBefore(Ks, n) == IF n = 1 THEN 0 ELSE Ks[n - 1] + RowsBefore(Ks, n - 1)

\* the registry whose orbit n has Ks[n] rows of correlation values
OrbitRegistry(Ks) ==
    [n \in 1 .. Len(Ks) |->
        LET N == orbit_data[n].correlation_tensors.size_c
        IN  [id |-> n,
             bit_id |-> 1 + RowsBefore(Ks, n),
             tensor_indices |-> orbit_data[n].tensor_indices,
             correlation_tensors |->
                Array2D([k \in 1 .. Ks[n] |-> [x \in 1 .. N |-> D(k * x - n)]], N)]]

Layouts == [1 .. Len(orbit_data) -> 1 .. MaxRows]

\* DefaultTensorsOf taking the first row of each orbit's correlation tensors
DefaultTensorsOf_first_row(data) ==
    [n \in 1 .. Len(data) |->
        InteractionTensor(data[n],
            [k \in 1 .. data[n].correlation_tensors.size_r |-> IF k = 1 THEN 1 ELSE 0])]

\* tuple(data[2].sum(axis=0) for data in orbit_data)
DefaultTensorsOf(data) ==
    [n \in 1 .. Len(data) |->
        InteractionTensor(data[n], [k \in 1 .. data[n].correlation_tensors.size_r |-> 1])]

InitLayout ==
    /\ \E Ks \in Layouts :
          self = cinit(OrbitRegistry(Ks), Len(Ks) + 1, 1 + RowsBefore(Ks, Len(Ks) + 1),
                       D(0), DefaultTensorsOf(OrbitRegistry(Ks)))
    /\ pc = "idle"
    /\ call = NoCall
    /\ pending = {}
    /\ out = zeros(0)
    /\ workers = << >>
    /\ others = << >>

NextLayout ==
    \/ \E occu \in Occupancies : correlations_from_occupancy(occu, FullTable)
    \/ \E occu \in Occupancies, offset \in Offsets :
          interactions_from_occupancy(occu, offset, FullTable)
    \/ \E occu_i \in Occupancies, s \in Sites : \E a \in FlipArgs(s) :
          delta_correlations_from_occupancies(Flip(occu_i, s), occu_i, a[2], a[1])
    \/ \E occu_i \in Occupancies, s \in Sites : \E a \in FlipArgs(s) :
          delta_interactions_from_occupancies(Flip(occu_i, s), occu_i, a[2], a[1])
    \/ \E n \in 0 .. (Len(orbit_data) - 1) : Orbit(n)
    \/ \E n \in 0 .. (Len(orbit_data) - 1) : OrbitZeroDivision(n)
    \/ Return

SpecLayout == InitLayout /\ [][NextLayout]_vars

(***************************************************************************)
(* Evaluators and calls whose interaction tensors, cluster index tables or *)
(* cluster ratios are one fewer or one more than the orbits.  Nothing in   *)
(* __cinit__ or in the four routines compares these counts with self.size: *)
(* the loop reads entry n of each for n < self.size.  An entry past the    *)
(* end of a container is a read outside its C array (undefined); an entry  *)
(* past the end of the cluster_ratio memoryview raises IndexError where    *)
(* the build checks bounds and is undefined where it does not.  The tables *)
(* are the full ones and the ratios are 1, so no divisor is zero here.     *)
(***************************************************************************)
\* a sequence with its last element dropped, as is, and with one more element
Miscounted(seq) == {SubSeq(seq, 1, Len(seq) - 1), seq, Append(seq, seq[1])}

\* every entry the iteration for orbit n reads exists
in_bounds(slf, c, n) ==
    /\ n < Len(c.cluster_indices)
    /\ c.op \in {"delta_correlations_from_occupancies",
                 "delta_interactions_from_occupancies"} => n < Len(c.cluster_ratio)
    /\ c.op \in {"interactions_from_occupancy",
                 "delta_interactions_from_occupancies"}
          => n < Len(slf.cluster_interactions)

\* what a read outside an array may leave in the slots of the orbit
Garbage == {D(0), Dbl(0, 0)}

\* the iteration for orbit n computing from whatever lies past the end
RECURSIVE garbage_body(_, _, _, _, _, _)
garbage_body(c, o_view, orbit, k, bit_id, g) ==
    IF c.op \in {"interactions_from_occupancy", "delta_interactions_from_occupancies"}
    THEN [o_view EXCEPT ![orbit.id] = g]
    ELSE IF k = orbit.correlation_tensors.size_r THEN o_view
    ELSE garbage_body(c, [o_view EXCEPT ![bit_id] = g], orbit, k + 1, bit_id + 1, g)

InitMiscounted ==
    /\ \E cluster_interaction_tensors \in Miscounted(DefaultTensors) :
          self = cinit(orbit_data, Len(orbit_data) + 1, 4, D(0),
                       cluster_interaction_tensors)
    /\ pc = "idle"
    /\ call = NoCall
    /\ pending = {}
    /\ out = zeros(0)
    /\ workers = << >>
    /\ others = << >>

OrbitInBounds(n) == in_bounds(self, call, n) /\ Orbit(n)

\* an iteration reading past the end: the process dies, or the memoryview
\* access raises, or the iteration goes on with what it found there
OrbitOutOfBounds(n) ==
    /\ pc = "prange"
    /\ n \in pending
    /\ ~in_bounds(self, call, n)
    /\ \/ /\ pc' = "SegmentationFault"
          /\ pending' = {}
          /\ out' = zeros(0)
       \/ /\ n < Len(call.cluster_indices)
          /\ n >= Len(call.cluster_ratio)
          /\ pc' = "IndexError"
          /\ pending' = {}
          /\ out' = zeros(0)
       \/ /\ \E g \in Garbage :
                out' = garbage_body(call, out, self.data[n + 1], 0,
                                    self.data[n + 1].bit_id, g)
          /\ pending' = pending \ {n}
          /\ pc' = IF pending' = {} THEN "returned" ELSE "prange"
    /\ UNCHANGED <<self, call, workers, others>>

NextMiscounted ==
    \/ \E a \in SetterArgs : set_cluster_interactions(a[1], a[2])
    \/ \E occu \in Occupancies, cluster_indices \in Miscounted(FullTable) :
          correlations_from_occupancy(occu, cluster_indices)
    \/ \E occu \in Occupancies, cluster_indices \in Miscounted(FullTable) :
          interactions_from_occupancy(occu, D(0), cluster_indices)
    \/ \E occu_i \in Occupancies, s \in Sites :
          \E cluster_indices \in Miscounted(FullTable), cluster_ratio \in Miscounted(Ones) :
             delta_correlations_from_occupancies(Flip(occu_i, s), occu_i,
                                                 cluster_ratio, cluster_indices)
    \/ \E occu_i \in Occupancies, s \in Sites :
          \E cluster_indices \in Miscounted(FullTable), cluster_ratio \in Miscounted(Ones) :
             delta_interactions_from_occupancies(Flip(occu_i, s), occu_i,
                                                 cluster_ratio, cluster_indices)
    \/ \E n \in 0 .. (Len(orbit_data) - 1) : OrbitInBounds(n)
    \/ \E n \in 0 .. (Len(orbit_data) - 1) : OrbitOutOfBounds(n)
    \/ Return

SpecMiscounted == InitMiscounted /\ [][NextMiscounted]_vars

(***************************************************************************)
(* set_cluster_interactions called by another thread while an interaction  *)
(* routine is in its loop.  The loop runs with the GIL released            *)
(* (prange(..., nogil=True)), so another Python thread can run the setter  *)
(* between two iterations; each iteration reads                            *)
(* self.cluster_interactions.data[n] anew, and neither method takes a lock *)
(* or a copy of the store.  The setter is taken here as one step; its      *)
(* ValueError, raised in the other thread, leaves this call as it is.      *)
(***************************************************************************)
set_cluster_interactions_during_call(cluster_interaction_tensors, offset) ==
    /\ pc = "prange"
    /\ Len(cluster_interaction_tensors) = self.size
    /\ self' = [self EXCEPT !.cluster_interactions = cluster_interaction_tensors,
                            !.offset = offset]
    /\ UNCHANGED <<pc, call, pending, out, workers, others>>

NextSetterRace ==
    \/ \E a \in SetterArgs : set_cluster_interactions(a[1], a[2])
    \/ \E a \in SetterArgs : set_cluster_interactions_during_call(a[1], a[2])
    \/ \E occu \in Occupancies, offset \in Offsets :
          interactions_from_occupancy(occu, offset, FullTable)
    \/ \E occu_i \in Occupancies, s \in Sites : \E a \in FlipArgs(s) :
          delta_interactions_from_occupancies(Flip(occu_i, s), occu_i, a[2], a[1])
    \/ \E n \in 0 .. (Len(orbit_data) - 1) : Orbit(n)
    \/ \E n \in 0 .. (Len(orbit_data) - 1) : OrbitZeroDivision(n)
    \/ Return

SpecSetterRace == Init /\ [][NextSetterRace]_vars

(***************************************************************************)
(* The four routines on the full tables with cluster_ratio = 1, for every  *)
(* pair of occupancies, between calls of set_cluster_interactions with the *)
(* tensors of several fits.                                                *)
(***************************************************************************)
\* coefficient vectors of the fits; their constant terms differ
Fits == ECIs \cup { <<0, 1, 1, 1, 1>>, <<1, -1, 2, 0, 1>> }

\* (tensors, offset) of each fit, and a tuple of the wrong length
FitArgs ==
    {<<TensorsOf(eci), D(eci[1])>> : eci \in Fits}
    \cup {<<SubSeq(DefaultTensors, 1, 1), D(2)>>}

NextFullTables ==
    \/ \E a \in FitArgs : set_cluster_interactions(a[1], a[2])
    \/ \E occu \in Occupancies : correlations_from_occupancy(occu, FullTable)
    \/ \E occu \in Occupancies, offset \in Offsets :
          interactions_from_occupancy(occu, offset, FullTable)
    \/ \E occu_f \in Occupancies, occu_i \in Occupancies :
          delta_correlations_from_occupancies(occu_f, occu_i, Ones, FullTable)
    \/ \E occu_f \in Occupancies, occu_i \in Occupancies :
          delta_interactions_from_occupancies(occu_f, occu_i, Ones, FullTable)
    \/ \E n \in 0 .. (Len(orbit_data) - 1) : Orbit(n)
    \/ Return

SpecFullTables == Init /\ [][NextFullTables]_vars

(***************************************************************************)
(* The delta routines for every pair of occupancies, on tables that have   *)
(* at least one row per orbit: the full tables with cluster_ratio 1 and    *)
(* 1/2, and the tables of the clusters containing site 0 with their        *)
(* ratios.  The evaluator holds the tensors of a fit.                      *)
(***************************************************************************)
NonEmptyDeltaArgs ==
    {<<FullTable, Ones>>, <<FullTable, Halves>>,
     <<RestrictedTable({0}), RatioOf({0})>>}

InitFitted ==
    /\ \E eci \in ECIs :
          self = cinit(orbit_data, Len(orbit_data) + 1, 4, D(eci[1]), TensorsOf(eci))
    /\ pc = "idle"
    /\ call = NoCall
    /\ pending = {}
    /\ out = zeros(0)
    /\ workers = << >>
    /\ others = << >>

NextDelta ==
    \/ \E occu_f \in Occupancies, occu_i \in Occupancies, a \in NonEmptyDeltaArgs :
          delta_correlations_from_occupancies(occu_f, occu_i, a[2], a[1])
    \/ \E occu_f \in Occupancies, occu_i \in Occupancies, a \in NonEmptyDeltaArgs :
          delta_interactions_from_occupancies(occu_f, occu_i, a[2], a[1])
    \/ \E n \in 0 .. (Len(orbit_data) - 1) : Orbit(n)
    \/ Return

SpecDelta == InitFitted /\ [][NextDelta]_vars

(***************************************************************************)
(* Evaluators of one orbit over sites with 2 .. MaxStates species each:    *)
(* a cluster of 1 .. MaxClusterSize sites, tensor_indices the mixed-radix  *)
(* multipliers of the sites' state counts, one row of N = product of the   *)
(* counts correlation values (column x holds the value x, so that a        *)
(* returned slot tells which column was read), and the one-row table of    *)
(* the cluster's sites.                                                    *)
(***************************************************************************)
MaxStates == 3

MaxClusterSize == 2

\* the number of joint configurations of the first i sites
RECURSIVE StatesProduct(_, _)
StatesProduct(counts, i) == IF i = 0 THEN 1 ELSE counts[i] * StatesProduct(counts, i - 1)

\* [1, c1, c1 * c2, ...]: the mixed-radix multipliers of the state counts
RadixMultipliers(counts) == [i \in 1 .. Len(counts) |-> StatesProduct(counts, i - 1)]

RadixOrbit(counts) ==
    LET N == StatesProduct(counts, Len(counts))
    IN  [id |-> 1, bit_id |-> 1,
         tensor_indices |-> RadixMultipliers(counts),
         correlation_tensors |-> Array2D(<< [x \in 1 .. N |-> D(x - 1)] >>, N)]

\* the table of the one cluster on sites 0 .. I - 1
RadixTable(I) == << Array2D(<< [i \in 1 .. I |-> i - 1] >>, I) >>

StateCounts == UNION {[1 .. I -> 2 .. MaxStates] : I \in 1 .. MaxClusterSize}

\* the occupancies of the cluster's sites with codes below the state counts
Configurations(counts) ==
    {occu \in [0 .. (Len(counts) - 1) -> 0 .. (MaxStates - 1)] :
        \A i \in 1 .. Len(counts) : occu[i - 1] < counts[i]}

InitRadix ==
    /\ \E counts \in StateCounts :
          self = cinit(<< RadixOrbit(counts) >>, 2, 2, D(0),
                       DefaultTensorsOf(<< RadixOrbit(counts) >>))
    /\ pc = "idle"
    /\ call = NoCall
    /\ pending = {}
    /\ out = zeros(0)
    /\ workers = << >>
    /\ others = << >>

\* the state counts of the sites of an orbit, read back from its multipliers
CountsOf(orbit) ==
    [i \in 1 .. Len(orbit.tensor_indices) |->
        IF i = Len(orbit.tensor_indices)
        THEN orbit.correlation_tensors.size_c \div orbit.tensor_indices[i]
        ELSE orbit.tensor_indices[i + 1] \div orbit.tensor_indices[i]]

NextRadix ==
    \/ \E occu \in Configurations(CountsOf(self.data[1])) :
          correlations_from_occupancy(occu, RadixTable(Len(self.data[1].tensor_indices)))
    \/ \E occu \in Configurations(CountsOf(self.data[1])) :
          interactions_from_occupancy(occu, D(0),
                                      RadixTable(Len(self.data[1].tensor_indices)))
    \/ \E occu_f \in Configurations(CountsOf(self.data[1])),
          occu_i \in Configurations(CountsOf(self.data[1])) :
          /\ \A s \in DOMAIN occu_i : s > 0 => occu_i[s] = 0
          /\ delta_correlations_from_occupancies(occu_f, occu_i, << D(1) >>,
                RadixTable(Len(self.data[1].tensor_indices)))
    \/ \E occu_f \in Configurations(CountsOf(self.data[1])),
          occu_i \in Configurations(CountsOf(self.data[1])) :
          /\ \A s \in DOMAIN occu_i : s > 0 => occu_i[s] = 0
          /\ delta_interactions_from_occupancies(occu_f, occu_i, << D(1) >>,
                RadixTable(Len(self.data[1].tensor_indices)))
    \/ Orbit(0)
    \/ Return

SpecRadix == InitRadix /\ [][NextRadix]_vars

(***************************************************************************)
(* Two threads calling the routines on one evaluator at the same time (the *)
(* loops run with the GIL released).  The first thread's call is the frame *)
(* pc, call, pending, out; the second thread's is others[1].  Each call    *)
(* allocates its own output vector; the evaluator and the tables are read  *)
(* by both.  Nobody calls set_cluster_interactions.                        *)
(***************************************************************************)
InteractionRoutines ==
    {"interactions_from_occupancy", "delta_interactions_from_occupancies"}

DeltaRoutines ==
    {"delta_correlations_from_occupancies", "delta_interactions_from_occupancies"}

IdleFrame == [pc |-> "idle", call |-> NoCall, pending |-> {}, out |-> zeros(0)]

\* the arguments of the calls the two threads make
ConcurrentCalls ==
    {[op |-> op, occu_f |-> occu, occu_i |-> occu, offset |-> offset,
      cluster_ratio |-> Ones, cluster_indices |-> FullTable] :
        op \in {"correlations_from_occupancy", "interactions_from_occupancy"},
        occu \in Occupancies, offset \in {D(3)}}
    \cup
    {[op |-> op, occu_f |-> Flip(ZeroOccu, s), occu_i |-> ZeroOccu, offset |-> D(0),
      cluster_ratio |-> RatioOf({s}), cluster_indices |-> RestrictedTable({s})] :
        op \in DeltaRoutines, s \in Sites}

InitConcurrent ==
    /\ \E eci \in ECIs :
          self = cinit(orbit_data, Len(orbit_data) + 1, 4, D(eci[1]), TensorsOf(eci))
    /\ pc = "idle"
    /\ call = NoCall
    /\ pending = {}
    /\ out = zeros(0)
    /\ workers = << >>
    /\ others = << IdleFrame >>

\* the first thread enters the routine c.op with the arguments c
Call(c) ==
    Enter(c.op, c.occu_f, c.occu_i, c.offset, c.cluster_ratio, c.cluster_indices,
          call_alloc(self, c))

OtherCall(t, c) ==
    /\ others[t].pc = "idle"
    /\ others' = [others EXCEPT ![t] =
                     [pc |-> "prange", call |-> c, pending |-> 0 .. (self.size - 1),
                      out |-> call_alloc(self, c)]]
    /\ UNCHANGED <<self, pc, call, pending, out, workers>>

\* OtherOrbit writing into the vector of the first thread's call where that
\* call is of the same routine (one output buffer for the routine)
OtherOrbit_one_buffer(t, n) ==
    /\ others[t].pc = "prange"
    /\ n \in others[t].pending
    /\ others' = [others EXCEPT
                     ![t].pending = @ \ {n},
                     ![t].pc = IF others[t].pending = {n} THEN "returned" ELSE "prange",
                     ![t].out = IF pc = "prange" /\ call.op = others[t].call.op
                                THEN @ ELSE prange_body(self, others[t].call, @, n)]
    /\ out' = IF pc = "prange" /\ call.op = others[t].call.op
              THEN prange_body(self, others[t].call, out, n) ELSE out
    /\ UNCHANGED <<self, pc, call, pending, workers>>

OtherOrbit(t, n) ==
    /\ others[t].pc = "prange"
    /\ n \in others[t].pending
    /\ others' = [others EXCEPT
                     ![t].pending = @ \ {n},
                     ![t].pc = IF others[t].pending = {n} THEN "returned" ELSE "prange",
                     ![t].out = prange_body(self, others[t].call, @, n)]
    /\ out' = out
    /\ UNCHANGED <<self, pc, call, pending, workers>>

OtherOrbitZeroDivision(t, n) ==
    /\ others[t].pc = "prange"
    /\ n \in others[t].pending
    /\ divides_by_zero(self, others[t].call, n)
    /\ others' = [others EXCEPT ![t] = [pc |-> "ZeroDivisionError", call |-> @.call,
                                        pending |-> {}, out |-> zeros(0)]]
    /\ UNCHANGED <<self, pc, call, pending, out, workers>>

OtherReturn(t) ==
    /\ others[t].pc \in {"returned", "ZeroDivisionError"}
    /\ others' = [others EXCEPT ![t] = IdleFrame]
    /\ UNCHANGED <<self, pc, call, pending, out, workers>>

NextConcurrent ==
    \/ \E c \in ConcurrentCalls : Call(c)
    \/ \E n \in 0 .. (Len(orbit_data) - 1) : Orbit(n)
    \/ \E n \in 0 .. (Len(orbit_data) - 1) : OrbitZeroDivision(n)
    \/ Return
    \/ \E t \in DOMAIN others, c \in ConcurrentCalls : OtherCall(t, c)
    \/ \E t \in DOMAIN others, n \in 0 .. (Len(orbit_data) - 1) : OtherOrbit(t, n)
    \/ \E t \in DOMAIN others, n \in 0 .. (Len(orbit_data) - 1) :
          OtherOrbitZeroDivision(t, n)
    \/ \E t \in DOMAIN others : OtherReturn(t)

SpecConcurrent == InitConcurrent /\ [][NextConcurrent]_vars

(***************************************************************************)
(* Properties                                                              *)
(***************************************************************************)
\* the frame of a call of a non-delta routine on an occupancy
CallOf(op, occu, offset, cluster_indices) ==
    [NoCall EXCEPT !.op = op, !.occu_f = occu, !.occu_i = occu,
                   !.offset = offset, !.cluster_indices = cluster_indices]

\* correlations_from_occupancy(occu, cluster_indices) of the evaluator
CorrelationsOf(occu, cluster_indices) ==
    result_of(self, CallOf("correlations_from_occupancy", occu, D(0), cluster_indices))

Returned(op) == pc = "returned" /\ call.op = op

\* C1: consistency law for correlations.  When
\* delta_correlations_from_occupancies has returned from a call with the full
\* table of every orbit and cluster_ratio = 1, every slot of
\* correlations_from_occupancy(occu_f) equals the same slot of
\* correlations_from_occupancy(occu_i) plus the returned delta.
C1_ConsistencyLaw ==
    ( /\ Returned("delta_correlations_from_occupancies")
      /\ call.cluster_indices = FullTable
      /\ call.cluster_ratio = Ones )
    => \A s \in DOMAIN out :
          CorrelationsOf(call.occu_f, FullTable)[s]
          = DAdd(CorrelationsOf(call.occu_i, FullTable)[s], out[s])

\* a full-table delta over two occupancies whose correlations differ
C1_Witness ==
    /\ Returned("delta_correlations_from_occupancies")
    /\ call.cluster_indices = FullTable
    /\ call.cluster_ratio = Ones
    /\ \E s \in DOMAIN out : ~IsZero(out[s])
    /\ \E s \in DOMAIN out : IsZero(out[s]) /\ s > 0

\* the call of a delta routine that passes, for every orbit, exactly the rows
\* touching a site where the two occupancies differ, with the matching ratio
RestrictedCall ==
    /\ call.cluster_indices = RestrictedTable(Diff(call.occu_f, call.occu_i))
    /\ call.cluster_ratio = RatioOf(Diff(call.occu_f, call.occu_i))

\* C2: the restricted delta equals the full difference.  A call of
\* delta_correlations_from_occupancies with the restricted tables and their
\* ratios ends by returning, in every slot, correlations_from_occupancy(occu_f)
\* minus correlations_from_occupancy(occu_i) over the full tables.
C2_RestrictedDeltaIsDifference ==
    ( /\ call.op = "delta_correlations_from_occupancies"
      /\ pc \in {"returned", "ZeroDivisionError"}
      /\ RestrictedCall )
    => /\ pc = "returned"
       /\ \A s \in DOMAIN out :
             out[s] = DSub(CorrelationsOf(call.occu_f, FullTable)[s],
                           CorrelationsOf(call.occu_i, FullTable)[s])

\* sum of the values of a function with a finite domain
RECURSIVE SumD(_)
SumD(f) ==
    IF DOMAIN f = {} THEN D(0)
    ELSE LET x == CHOOSE y \in DOMAIN f : TRUE
         IN  DAdd(f[x], SumD([y \in DOMAIN f \ {x} |-> f[y]]))

RECURSIVE SumI(_)
SumI(f) ==
    IF DOMAIN f = {} THEN 0
    ELSE LET x == CHOOSE y \in DOMAIN f : TRUE
         IN  f[x] + SumI([y \in DOMAIN f \ {x} |-> f[y]])

\* the rows of a table, as a sequence of rows of site indices
RowsOf(indices) ==
    [j \in 1 .. indices.size_r |->
        [i \in 1 .. indices.size_c |-> indices.data[(j - 1) * indices.size_c + i]]]

\* sum_i tensor_indices[i] * occu[row[i]]
FlatIndex(orbit, row, occu) ==
    SumI([i \in 1 .. Len(row) |-> orbit.tensor_indices[i] * occu[row[i]]])

\* coefficient vectors the stored tensors may have been derived from
Weights == ECIs \cup { <<0, 1, 1, 1, 1>> }

\* C3: energy identity.  When interactions_from_occupancy(occu, offset) has
\* returned and the stored tensors are the coefficient-weighted sums of the
\* correlation tensors, the orbit slots of the result plus its slot 0 sum to
\* the dot product of correlations_from_occupancy(occu) (slots >= 1) with the
\* coefficients, plus offset.
C3_EnergyIdentity ==
    Returned("interactions_from_occupancy")
    => \A w \in Weights :
          self.cluster_interactions = TensorsOf(w)
          => DAdd(SumD([n \in 1 .. self.size |-> out[self.data[n].id]]), out[0])
             = DAdd(SumD([s \in 1 .. (self.num_corr - 1) |->
                            DMul(D(w[s + 1]),
                                 CorrelationsOf(call.occu_f, call.cluster_indices)[s])]),
                    call.offset)

\* an energy of fitted (non-default) tensors with a nonzero offset on an
\* occupancy that is not uniform
C3_Witness ==
    /\ Returned("interactions_from_occupancy")
    /\ self.cluster_interactions # DefaultTensors
    /\ ~IsZero(call.offset)
    /\ \E s \in Sites : call.occu_f[s] # call.occu_f[0]
    /\ \E n \in 1 .. self.size : out[self.data[n].id].den > 1

\* the slots of an orbit in the correlation vector
BitRange(orbit) ==
    orbit.bit_id .. (orbit.bit_id + orbit.correlation_tensors.size_r - 1)

\* C4: correlations_from_occupancy writes, for every orbit n and row k of its
\* correlation tensors, the average over the J rows of the orbit's table of
\* correlation_tensors[k][flattened index of the row] into slot bit_id + k;
\* every slot other than 0 in no orbit's range is 0.
C4_CorrelationsFormula ==
    Returned("correlations_from_occupancy")
    => /\ \A n \in 1 .. self.size :
             LET orbit == self.data[n]
                 rows  == RowsOf(call.cluster_indices[n])
                 N     == orbit.correlation_tensors.size_c
             IN  \A k \in 0 .. (orbit.correlation_tensors.size_r - 1) :
                    out[orbit.bit_id + k]
                    = DDiv(SumD([j \in 1 .. Len(rows) |->
                                   orbit.correlation_tensors.data[
                                       k * N + FlatIndex(orbit, rows[j], call.occu_f) + 1]]),
                           D(Len(rows)))
       /\ \A s \in DOMAIN out :
             (s # 0 /\ \A n \in 1 .. self.size : s \notin BitRange(self.data[n]))
             => out[s] = D(0)

\* a returned correlation vector with a slot in no orbit's range and an orbit
\* of two basis functions whose averages differ
C4_Witness ==
    /\ Returned("correlations_from_occupancy")
    /\ \E s \in DOMAIN out :
          s # 0 /\ \A n \in 1 .. self.size : s \notin BitRange(self.data[n])
    /\ \E n \in 1 .. self.size :
          /\ self.data[n].correlation_tensors.size_r > 1
          /\ out[self.data[n].bit_id] # out[self.data[n].bit_id + 1]
          /\ out[self.data[n].bit_id + 1].den > 1

\* C5: interactions_from_occupancy returns one slot per orbit, addressed by
\* the orbit's id: the average over the J rows of the orbit's table of
\* interaction_tensor[flattened index of the row].
C5_InteractionsFormula ==
    Returned("interactions_from_occupancy")
    => /\ DOMAIN out = 0 .. self.size
       /\ \A n \in 1 .. self.size :
             LET orbit == self.data[n]
                 rows  == RowsOf(call.cluster_indices[n])
             IN  out[orbit.id]
                 = DDiv(SumD([j \in 1 .. Len(rows) |->
                                self.cluster_interactions[n][
                                    FlatIndex(orbit, rows[j], call.occu_f) + 1]]),
                        D(Len(rows)))

\* a returned interaction vector of an orbit whose id differs from its bit_id
\* and whose tensor has several basis-function rows behind it
C5_Witness ==
    /\ Returned("interactions_from_occupancy")
    /\ \E n \in 1 .. self.size :
          /\ self.data[n].id # self.data[n].bit_id
          /\ ~IsZero(out[self.data[n].id])
    /\ \E n \in 1 .. self.size :
          /\ self.data[n].correlation_tensors.size_r > 1
          /\ ~IsZero(out[self.data[n].id])

\* the call is inside the loop over the orbits or has returned its vector
Running(op) == call.op = op /\ pc \in {"prange", "returned"}

\* C6: slot 0 of the vector of correlations_from_occupancy is 1 from the
\* allocation to the return: no orbit's write replaces the empty-cluster slot.
C6_CorrelationsSlotZero ==
    Running("correlations_from_occupancy") => out[0] = D(1)

\* a returned correlation vector whose orbits have all written nonzero values
C6_Witness ==
    /\ Returned("correlations_from_occupancy")
    /\ \A n \in 1 .. self.size : ~IsZero(out[self.data[n].bit_id])

\* C7: slot 0 of the vector of delta_correlations_from_occupancies is 0 from
\* the allocation to the return, for every pair of occupancies, every
\* cluster_ratio and every table passed.
C7_DeltaCorrelationsSlotZero ==
    Running("delta_correlations_from_occupancies") => out[0] = D(0)

\* a returned delta over a restricted table, rescaled by a ratio other than 1,
\* with a nonzero slot
C7_Witness ==
    /\ Returned("delta_correlations_from_occupancies")
    /\ call.cluster_indices # FullTable
    /\ call.cluster_ratio # Ones
    /\ \E s \in DOMAIN out : IsFinite(out[s]) /\ ~IsZero(out[s])

\* C8: slot 0 of the vector of interactions_from_occupancy is the offset
\* passed to the call, not the offset stored in the evaluator, and no orbit's
\* write replaces it.
C8_InteractionsSlotZero ==
    Running("interactions_from_occupancy") => out[0] = call.offset

\* a returned interaction vector of a call whose offset differs from the
\* offset stored by an earlier set_cluster_interactions
C8_Witness ==
    /\ Returned("interactions_from_occupancy")
    /\ self.offset # call.offset
    /\ ~IsZero(self.offset)
    /\ \A n \in 1 .. self.size : ~IsZero(out[self.data[n].id])

\* C9: when delta_interactions_from_occupancies returns, the slot id of every
\* orbit holds the sum over the rows of the passed table of
\* interaction_tensor[final index] - interaction_tensor[initial index], divided
\* by cluster_ratio[n] and then by J; slot 0 is 0 from allocation to return.
C9_DeltaInteractionsFormula ==
    /\ Running("delta_interactions_from_occupancies") => out[0] = D(0)
    /\ Returned("delta_interactions_from_occupancies")
       => \A n \in 1 .. self.size :
             LET orbit == self.data[n]
                 rows  == RowsOf(call.cluster_indices[n])
                 t     == self.cluster_interactions[n]
             IN  out[orbit.id]
                 = DDiv(DDiv(SumD([j \in 1 .. Len(rows) |->
                                DSub(t[FlatIndex(orbit, rows[j], call.occu_f) + 1],
                                     t[FlatIndex(orbit, rows[j], call.occu_i) + 1])]),
                             call.cluster_ratio[n]),
                        D(Len(rows)))

\* a returned interaction delta, rescaled by a ratio other than 1, nonzero in
\* every orbit
C9_Witness ==
    /\ Returned("delta_interactions_from_occupancies")
    /\ \A n \in 1 .. self.size :
          /\ call.cluster_ratio[n] # D(1)
          /\ IsFinite(out[self.data[n].id])
          /\ ~IsZero(out[self.data[n].id])

\* the table with rows a and b (0-based) exchanged
SwapRows(indices, a, b) ==
    LET I == indices.size_c
        src(j) == IF j = a THEN b ELSE IF j = b THEN a ELSE j
    IN  [indices EXCEPT !.data =
            [x \in 1 .. Len(indices.data) |->
                indices.data[src((x - 1) \div I) * I + ((x - 1) % I) + 1]]]

\* the table with its rows rotated by one
RotateRows(indices) ==
    LET I == indices.size_c
        J == indices.size_r
    IN  [indices EXCEPT !.data =
            [x \in 1 .. Len(indices.data) |->
                indices.data[((((x - 1) \div I) + 1) % J) * I + ((x - 1) % I) + 1]]]

\* the tables obtained from the table of orbit n by exchanging two rows or by
\* rotating the rows
RowPermutations(indices) ==
    {SwapRows(indices, a, b) :
        a \in 0 .. (indices.size_r - 1), b \in 0 .. (indices.size_r - 1)}
    \cup {RotateRows(indices)}

FourRoutines ==
    {"correlations_from_occupancy", "interactions_from_occupancy",
     "delta_correlations_from_occupancies", "delta_interactions_from_occupancies"}

\* C10: order-invariance.  The vector returned by each of the four routines is
\* the vector the routine computes when the rows of any one orbit's table are
\* permuted and every other argument is kept.
C10_OrderInvariance ==
    (pc = "returned" /\ call.op \in FourRoutines)
    => \A n \in 1 .. self.size :
          \A permuted \in RowPermutations(call.cluster_indices[n]) :
             result_of(self, [call EXCEPT !.cluster_indices[n] = permuted]) = out

\* a returned vector of a call with a table of which two rows contribute
\* different values
C10_Witness ==
    /\ Returned("correlations_from_occupancy")
    /\ \E n \in 1 .. self.size :
          LET orbit == self.data[n]
              rows  == RowsOf(call.cluster_indices[n])
          IN  \E a \in 1 .. Len(rows), b \in 1 .. Len(rows) :
                 /\ rows[a] # rows[b]
                 /\ orbit.correlation_tensors.data[FlatIndex(orbit, rows[a], call.occu_f) + 1]
                    # orbit.correlation_tensors.data[FlatIndex(orbit, rows[b], call.occu_f) + 1]

\* C11: intensivity.  correlations_from_occupancy and
\* interactions_from_occupancy on the occupancy of the cell repeated m times,
\* with every table replicated m times, return the vector they return on the
\* single cell with the full tables.
C11_Intensivity ==
    (pc = "returned"
     /\ call.op \in {"correlations_from_occupancy", "interactions_from_occupancy"})
    => \A m \in 1 .. MaxCopies :
          LET cell == [s \in Sites |-> call.occu_f[s]]
          IN  (call.cluster_indices = ReplicatedTable(m)
               /\ call.occu_f = Repeat(cell, m))
              => out = result_of(self, CallOf(call.op, cell, call.offset, FullTable))

\* a returned interaction vector on a supercell of at least two copies of a
\* cell that is not uniformly occupied
C11_Witness ==
    /\ Returned("interactions_from_occupancy")
    /\ \E m \in 2 .. MaxCopies : call.cluster_indices = ReplicatedTable(m)
    /\ \E s \in Sites : call.occu_f[s] # call.occu_f[0]
    /\ \A n \in 1 .. self.size : out[self.data[n].id].den > 1

\* C12: with one orbit of cluster size 2, tensor_indices [1, 2], the 1 x 4
\* correlation table [a, b, c, d], rows [[0,1],[2,3]] and occupancy [0,1,1,0],
\* correlations_from_occupancy writes (c + b) / 2 into the slot of the orbit.
C12_PairScenario ==
    (Returned("correlations_from_occupancy")
     /\ call.cluster_indices = PairTable
     /\ call.occu_f = [s \in 0 .. 3 |-> IF s \in {1, 2} THEN 1 ELSE 0])
    => LET t == self.data[1].correlation_tensors.data
       IN  out[self.data[1].bit_id] = DDiv(DAdd(t[3], t[2]), D(2))

\* the scenario has returned for a table whose entries b and c differ from
\* each other and from a and d
C12_Witness ==
    /\ Returned("correlations_from_occupancy")
    /\ call.cluster_indices = PairTable
    /\ call.occu_f = [s \in 0 .. 3 |-> IF s \in {1, 2} THEN 1 ELSE 0]
    /\ LET t == self.data[1].correlation_tensors.data
       IN  /\ t[2] # t[3]
           /\ t[1] \notin {t[2], t[3]}
           /\ t[4] \notin {t[2], t[3]}
           /\ out[1] = DDiv(DAdd(t[3], t[2]), D(2))

\* C13: schedule independence.  For each of the four routines, whichever
\* workers take the orbits, in whatever order, with their writes interleaved
\* in whatever way, the returned vector is the one obtained by visiting the
\* orbits one after the other in index order.
C13_ScheduleIndependence ==
    (pc = "returned" /\ call.op \in FourRoutines)
    => out = result_of(self, call)

\* a call has returned after one worker did orbit 1 and then orbit 0 (its
\* private bit_id is past the slots of orbit 0) while another did nothing
C13_Witness ==
    /\ Returned("delta_correlations_from_occupancies")
    /\ \E w \in Workers :
          /\ workers[w].bit_id = self.data[1].bit_id + self.data[1].correlation_tensors.size_r
          /\ \A v \in Workers \ {w} : workers[v].bit_id # workers[w].bit_id
    /\ \E x \in 1 .. (self.num_corr - 1) : ~IsZero(out[x]) /\ IsFinite(out[x])

\* a value no routine computes, marking a slot nothing has written
Unwritten == [num |-> 0, den |-> -1]

\* the slots of the output vector the iteration for orbit n assigns
WrittenSlots(slf, c, n) ==
    {x \in DOMAIN out :
        prange_body(slf, c, [y \in DOMAIN out |-> Unwritten], n)[x] # Unwritten}

C15_FailFastOnTensorCount ==
    /\ (call.op \in InteractionRoutines
        /\ Len(self.cluster_interactions) # self.size)
       => pc \notin {"prange", "returned"}
    /\ (call.op = "set_cluster_interactions" /\ pc = "returned")
       => Len(self.cluster_interactions) = self.size

\* C16: no silent truncation or padding.  A call of one of the four routines
\* whose cluster_indices holds a number of tables different from the number
\* of orbits, or (delta routines) whose cluster_ratio has another length,
\* does not get to its loop and returns no vector.
C16_NoSilentTruncation ==
    (call.op \in FourRoutines
     /\ \/ Len(call.cluster_indices) # self.size
        \/ call.op \in DeltaRoutines /\ Len(call.cluster_ratio) # self.size)
    => pc \notin {"prange", "returned"}

\* the evaluator's interaction store differs between the two states of a step
StoreChanged ==
    \/ self'.cluster_interactions # self.cluster_interactions
    \/ self'.offset # self.offset

C19_Frame ==
    [][(call.op \in FourRoutines \/ call'.op \in FourRoutines)
       => /\ self' = self
          /\ (call.op \in FourRoutines /\ pc' # "idle") => call' = call]_vars

\* an interaction call with an offset other than the stored one has returned
\* on an evaluator whose tensors were set, the stored offset still in place
C19_Witness ==
    /\ Returned("interactions_from_occupancy")
    /\ self.cluster_interactions # DefaultTensors
    /\ call.offset # self.offset
    /\ out[0] = call.offset

\* every tuple of tensors an evaluator of this model can hold
Stores == {DefaultTensors} \cup {TensorsOf(eci) : eci \in ECIs}

\* C18: atomic visibility of a store update.  An interactions_from_occupancy
\* or delta_interactions_from_occupancies call during which
\* set_cluster_interactions ran returns the vector computed from one tuple of
\* tensors for all orbits: the old one or the new one.
C18_AtomicStoreUpdate ==
    (pc = "returned" /\ call.op \in InteractionRoutines)
    => \E t \in Stores :
          out = result_of([self EXCEPT !.cluster_interactions = t], call)

\* C20: concurrent calls are independent.  When two calls of the four
\* routines overlap on one evaluator, with the same orbit registry, tables and
\* interaction store and no setter running, each call that returns returns
\* the vector it returns when it runs alone, however their iterations are
\* interleaved.
C20_ConcurrentCallsIndependent ==
    /\ (pc = "returned" /\ call.op \in FourRoutines) => out = result_of(self, call)
    /\ \A t \in DOMAIN others :
          others[t].pc = "returned"
          => others[t].out = result_of(self, others[t].call)

\* two different calls of the same routine, which overlapped, have both
\* returned, with different vectors
C20_Witness ==
    /\ Returned("interactions_from_occupancy")
    /\ \E t \in DOMAIN others :
          /\ others[t].pc = "returned"
          /\ others[t].call.op = call.op
          /\ others[t].call # call
          /\ others[t].out # out

\* C21: no division by zero.  None of the four routines ends in
\* ZeroDivisionError, every slot of a returned vector is a finite number, and
\* an orbit whose table has no row (J = 0) has 0 in its slots of a returned
\* delta vector.
C21_NoDivisionByZero ==
    /\ pc # "ZeroDivisionError"
    /\ (pc = "returned" /\ call.op \in FourRoutines)
       => /\ \A s \in DOMAIN out : IsFinite(out[s])
          /\ \A n \in 0 .. (self.size - 1) :
                (call.op \in DeltaRoutines /\ call.cluster_indices[n + 1].size_r = 0)
                => \A s \in WrittenSlots(self, call, n) : IsZero(out[s])

\* the flattened indices the iteration for orbit n computes
FlatIndices(slf, c, n) ==
    LET orbit   == slf.data[n + 1]
        indices == c.cluster_indices[n + 1]
    IN  {flat_index(orbit, indices, occu, j, 0, 0) :
            j \in 0 .. (indices.size_r - 1), occu \in {c.occu_f, c.occu_i}}

C30_FlatteningInjective ==
    Returned("correlations_from_occupancy")
    => LET orbit    == self.data[1]
           indices  == call.cluster_indices[1]
           idx(occu) == flat_index(orbit, indices, occu, 0, 0, 0)
           configs  == Configurations(CountsOf(orbit))
       IN  /\ out[orbit.bit_id] = D(idx(call.occu_f))
           /\ \A occu \in configs : idx(occu) = idx(call.occu_f) <=> occu = call.occu_f
           /\ {idx(occu) : occu \in configs} = 0 .. (orbit.correlation_tensors.size_c - 1)

\* correlations_from_occupancy has returned for a configuration of two sites
\* with different state counts whose sites hold different, nonzero codes
C30_Witness ==
    /\ Returned("correlations_from_occupancy")
    /\ Len(self.data[1].tensor_indices) = 2
    /\ CountsOf(self.data[1])[1] # CountsOf(self.data[1])[2]
    /\ call.occu_f[0] # call.occu_f[1]
    /\ call.occu_f[0] * call.occu_f[1] > 0
    /\ out[1] = D(call.occu_f[0] + CountsOf(self.data[1])[1] * call.occu_f[1])

\* interactions_from_occupancy(occu, offset, cluster_indices) of evaluator slf
InteractionsOf(slf, occu, offset, cluster_indices) ==
    result_of(slf, CallOf("interactions_from_occupancy", occu, offset, cluster_indices))

\* C23: set_cluster_interactions is all-or-nothing.  A call either returns,
\* and the evaluator then holds as many tensors as it has orbits, or raises
\* ValueError, and then the evaluator is as it was before the call: same
\* tensors, same offset, and interactions_from_occupancy gives the same vector
\* for every occupancy and offset as before the call.
C23_SetterAllOrNothing ==
    [][(pc = "idle" /\ call'.op = "set_cluster_interactions")
       => \/ /\ pc' = "returned"
             /\ Len(self'.cluster_interactions) = self'.size
          \/ /\ pc' = "ValueError"
             /\ self'.cluster_interactions = self.cluster_interactions
             /\ self'.offset = self.offset
             /\ \A occu \in Occupancies, offset \in Offsets :
                   InteractionsOf(self', occu, offset, FullTable)
                   = InteractionsOf(self, occu, offset, FullTable)]_vars

\* set_cluster_interactions has raised on an evaluator that holds the tensors
\* and the offset of a fit set before
C23_Witness ==
    /\ pc = "ValueError"
    /\ call.op = "set_cluster_interactions"
    /\ self.cluster_interactions # DefaultTensors
    /\ self.offset \notin {D(0), call.offset}

\* C24: consistency law for interactions.  When
\* delta_interactions_from_occupancies has returned from a call with the full
\* table of every orbit and cluster_ratio = 1, then for every offset every slot
\* (slot 0 included) of interactions_from_occupancy(occu_f, offset) equals the
\* same slot of interactions_from_occupancy(occu_i, offset) plus the delta.
C24_InteractionsConsistencyLaw ==
    ( /\ Returned("delta_interactions_from_occupancies")
      /\ call.cluster_indices = FullTable
      /\ call.cluster_ratio = Ones )
    => \A offset \in Offsets, s \in DOMAIN out :
          InteractionsOf(self, call.occu_f, offset, FullTable)[s]
          = DAdd(InteractionsOf(self, call.occu_i, offset, FullTable)[s], out[s])

\* a full-table interaction delta, on fitted tensors, that is nonzero for
\* both orbits
C24_Witness ==
    /\ Returned("delta_interactions_from_occupancies")
    /\ call.cluster_indices = FullTable
    /\ call.cluster_ratio = Ones
    /\ self.cluster_interactions # DefaultTensors
    /\ \A n \in 1 .. self.size : ~IsZero(out[self.data[n].id])

\* the evaluator as it was constructed, before any set_cluster_interactions
Constructed == cinit(orbit_data, self.num_orbits, self.num_corr, D(0), DefaultTensors)

\* C26: effect and frame of a successful set_cluster_interactions.  After any
\* sequence of setter calls the evaluator holds exactly the tensors and the
\* offset of the last call that passed the count check (of the constructor,
\* if none did): the interaction routines return what an evaluator constructed
\* with those tensors returns.  The orbit records are those of the
\* construction, and the correlation routines return what the evaluator
\* returned for the same arguments before any setter call.
C26_SetterEffectAndFrame ==
    /\ self.data = orbit_data
    /\ \E a \in FitArgs :
          /\ Len(a[1]) = self.size
          /\ self.offset = a[2]
          /\ self.cluster_interactions = a[1]
          /\ (pc = "returned" /\ call.op \in InteractionRoutines)
             => out = result_of(cinit(orbit_data, self.num_orbits, self.num_corr,
                                      a[2], a[1]), call)
    /\ (pc = "returned" /\ call.op = "set_cluster_interactions")
       => self.offset = call.offset
    /\ (pc = "returned"
        /\ call.op \in {"correlations_from_occupancy",
                        "delta_correlations_from_occupancies"})
       => out = result_of(Constructed, call)

\* an interaction delta has returned on an evaluator holding the tensors of
\* the fit with constant term 1, and the vector differs from the one the
\* constructor's tensors give for the same arguments
C26_Witness ==
    /\ Returned("delta_interactions_from_occupancies")
    /\ self.offset = D(1)
    /\ out # result_of(Constructed, call)

\* C25: default interaction store.  On an evaluator constructed without
\* interaction tensors, interactions_from_occupancy returns for every orbit n,
\* in slot id_n, the sum over the K_n rows k of the slots bit_id_n + k of
\* correlations_from_occupancy for the same occupancy and tables.
C25_DefaultStore ==
    Returned("interactions_from_occupancy")
    => \A n \in 1 .. self.size :
          LET orbit == self.data[n]
              corr  == CorrelationsOf(call.occu_f, call.cluster_indices)
          IN  out[orbit.id] = SumD([s \in BitRange(orbit) |-> corr[s]])

\* interactions_from_occupancy has returned nonzero values on a registry whose
\* orbits both have several rows of correlation values
C25_Witness ==
    /\ Returned("interactions_from_occupancy")
    /\ \A n \in 1 .. self.size :
          /\ self.data[n].correlation_tensors.size_r > 1
          /\ ~IsZero(out[self.data[n].id])
          /\ out[self.data[n].id]
             # CorrelationsOf(call.occu_f, call.cluster_indices)[self.data[n].bit_id]

\* the vector of the routine and the tables and ratios of the current call,
\* for the occupancies occu_f and occu_i
DeltaOf(occu_f, occu_i) ==
    result_of(self, [call EXCEPT !.occu_f = occu_f, !.occu_i = occu_i])

\* every table of the call has a row and every ratio is nonzero
NonEmptyCall ==
    \A n \in 1 .. self.size :
        /\ call.cluster_indices[n].size_r >= 1
        /\ ~IsZero(call.cluster_ratio[n])

\* C27: delta chain rule.  For the occupancies a and c of a returned delta
\* call (either delta routine) on tables with J >= 1 and nonzero ratios, and
\* every occupancy b, the returned delta(c, a) equals delta(c, b) + delta(b, a)
\* in every slot, with the same tables and ratios.
C27_DeltaChainRule ==
    (pc = "returned" /\ call.op \in DeltaRoutines /\ NonEmptyCall)
    => \A b \in Occupancies :
          LET delta_cb == DeltaOf(call.occu_f, b)
              delta_ba == DeltaOf(b, call.occu_i)
          IN  \A s \in DOMAIN out : out[s] = DAdd(delta_cb[s], delta_ba[s])

\* a correlation delta between two different occupancies, on the tables of
\* site 0, has returned nonzero, and some third occupancy splits it into two
\* nonzero deltas
C27_Witness ==
    /\ Returned("delta_correlations_from_occupancies")
    /\ call.cluster_indices = RestrictedTable({0})
    /\ \E s \in DOMAIN out :
          /\ ~IsZero(out[s])
          /\ \E b \in Occupancies :
                /\ ~IsZero(DeltaOf(call.occu_f, b)[s])
                /\ ~IsZero(DeltaOf(b, call.occu_i)[s])

\* C28: delta antisymmetry.  For a returned delta call (either delta routine)
\* on tables with J >= 1 and nonzero ratios, the returned delta(f, i) is in
\* every slot the negative of delta(i, f) with the same tables and ratios.
C28_DeltaAntisymmetry ==
    (pc = "returned" /\ call.op \in DeltaRoutines /\ NonEmptyCall)
    => LET delta_if == DeltaOf(call.occu_i, call.occu_f)
       IN  \A s \in DOMAIN out : out[s] = DNeg(delta_if[s])

\* an interaction delta with ratio 1/2 has returned nonzero in both orbit slots
C28_Witness ==
    /\ Returned("delta_interactions_from_occupancies")
    /\ call.cluster_ratio = Halves
    /\ \A n \in 1 .. self.size : ~IsZero(out[self.data[n].id])

\* the sites named in a table
SitesOf(indices) == {indices.data[x] : x \in 1 .. Len(indices.data)}

\* the occupancies of the call agree on every site of the table of orbit n
AgreeOn(n) ==
    \A s \in SitesOf(call.cluster_indices[n]) : call.occu_f[s] = call.occu_i[s]

\* C29: locality of the delta.  For every orbit n whose table in a returned
\* delta call has J >= 1 rows and whose ratio is nonzero, if occu_f and occu_i
\* agree on every site appearing in that table, the slots bit_id_n ..
\* bit_id_n + K_n - 1 of delta_correlations_from_occupancies, and the slot
\* id_n of delta_interactions_from_occupancies, are 0.
C29_DeltaLocality ==
    (pc = "returned" /\ call.op \in DeltaRoutines)
    => \A n \in 1 .. self.size :
          ( /\ call.cluster_indices[n].size_r >= 1
            /\ ~IsZero(call.cluster_ratio[n])
            /\ AgreeOn(n) )
          => IF call.op = "delta_correlations_from_occupancies"
             THEN \A s \in BitRange(self.data[n]) : IsZero(out[s])
             ELSE IsZero(out[self.data[n].id])

\* a correlation delta has returned for two occupancies that differ, but not
\* on the sites of the table of one orbit, while the other orbit's slot is
\* nonzero
C29_Witness ==
    /\ Returned("delta_correlations_from_occupancies")
    /\ call.occu_f # call.occu_i
    /\ \E n \in 1 .. self.size : AgreeOn(n)
    /\ \E s \in DOMAIN out : ~IsZero(out[s])

====
